---- MODULE Spec2Model ----
(***************************************************************************)
(* Model of the inference service of src/src/app.py: the artifact load in  *)
(* create_app, the before/after request middleware, and the handlers of    *)
(* GET /, GET /health, POST /predict and GET /metrics.                     *)
(*                                                                         *)
(* One worker serves one request at a time: before -> handler -> after.    *)
(* Python values that may be None, absent, a string or a number are        *)
(* tagged records, so that values of different Python types can be told    *)
(* apart.                                                                  *)
(***************************************************************************)
EXTENDS Integers, Sequences, FiniteSets, TLC

VARIABLES
    phase,        \* "boot" before create_app has run, "serving" after
    artifact,     \* index into Artifacts: the file found at MODEL_PATH
    app,          \* app.model, app.meta, app.load_error
    cur,          \* the request being served: position, request, g, response
    REQ_COUNT,    \* Counter api_requests_total, by <<endpoint, method, status>>
    REQ_LATENCY,  \* Histogram api_request_latency_seconds: observations by <<endpoint, method>>
    uuids,        \* number of uuid.uuid4() calls made so far
    received,     \* history: requests received so far, by endpoint
    answered,     \* history: responses the handlers produced, by <<endpoint, method, status>>
    startup,      \* history: app as create_app left it
    memo          \* history: one earlier /predict exchange, kept for comparison

vars == <<phase, artifact, app, cur, REQ_COUNT, REQ_LATENCY, uuids, received, answered,
          startup, memo>>

\* Requests served in one run of the model.
MaxRequests == 3

\* PredictInput: Field(min_length=30, max_length=30)
MIN_LENGTH == 30
MAX_LENGTH == 30
\* n_features_expected: meta.get("n_features", 30), and 30 on any exception
DEFAULT_N_FEATURES == 30

------------------------------------------------------------------------------
\* os.getenv("MODEL_PATH", "src/model/modelo_breast.pkl")
ARTIFACT_PATH == "src/model/modelo_breast.pkl"

\* Python values

NoneV == [t |-> "None"]
Absent == [t |-> "absent"]
Str(s) == [t |-> "str", v |-> s]
IntV(n) == [t |-> "int", v |-> n]

\* The pipeline fitted by train_breast_cancer.py: a classifier over n_in
\* features with the class labels 0 and 1; proba says whether it has
\* predict_proba.
Clf(n, p) == [t |-> "clf", n_in |-> n, proba |-> p]

CLASS_NAMES == <<"malignant", "benign">>

\* A dict is a record of its keys; a key that is missing holds Absent.
Meta(n, names) == [n_features |-> n, class_names |-> names]
EmptyMeta == Meta(Absent, Absent)

\* What joblib.load finds at MODEL_PATH: no file, a file that does not
\* unpickle, or a dict {"model": ..., "meta": ...} with either key possibly
\* missing.
Artifacts ==
    << [t |-> "missing"],
       [t |-> "corrupt"],
       [t |-> "dict", model |-> Absent, meta |-> EmptyMeta],
       [t |-> "dict", model |-> NoneV, meta |-> Absent],
       [t |-> "dict", model |-> Clf(30, TRUE),
                      meta |-> Meta(IntV(30), [t |-> "list", v |-> CLASS_NAMES])],
       [t |-> "dict", model |-> Clf(30, FALSE), meta |-> Absent],
       [t |-> "dict", model |-> Clf(30, TRUE), meta |-> Meta(Str("abc"), Absent)],
       [t |-> "dict", model |-> Clf(20, TRUE),
                      meta |-> Meta(IntV(20), [t |-> "list", v |-> CLASS_NAMES])] >>

------------------------------------------------------------------------------
\* Exceptions are records [exc, text]; str(e) is the text.

Raise(cls, text) == [raised |-> TRUE, exc |-> cls, text |-> text]
Return(v) == [raised |-> FALSE, value |-> v]

\* load_artifact(path): joblib.load, obj["model"], obj.get("meta", {})
load_artifact(file) ==
    CASE file.t = "missing" -> Raise("FileNotFoundError", "No such file or directory")
      [] file.t = "corrupt" -> Raise("UnpicklingError", "invalid load key")
      [] OTHER ->
           IF file.model = Absent
           THEN Raise("KeyError", "'model'")
           ELSE Return([model |-> file.model,
                        meta |-> IF file.meta = Absent THEN EmptyMeta ELSE file.meta])

\* int(x) of Python, on the values metadata may hold
int(x) ==
    IF x.t = "int" THEN Return(x.v) ELSE Raise("ValueError", "invalid literal for int()")

\* n_features_expected(meta)
n_features_expected(meta) ==
    LET got == IF meta.n_features = Absent THEN IntV(DEFAULT_N_FEATURES) ELSE meta.n_features
        n == int(got)
    IN  IF n.raised THEN DEFAULT_N_FEATURES ELSE n.value

------------------------------------------------------------------------------
\* Requests

\* The X-Request-Id header of a request: not sent, sent empty, sent with a value
Headers == << Absent, Str(""), Str("client-1") >>

\* features: a JSON array of len elements, all finite numbers except that
\* element 0 is of kind elem ("fin" a finite number, "nan" NaN, "inf" Infinity,
\* "str" a string that is no number); val stands for the values themselves.
Vec(n, e, c) == [t |-> "list", len |-> n, elem |-> e, val |-> c]
JObject(f) == [t |-> "object", features |-> f]

\* Bodies of POST /predict
Bodies ==
    << [t |-> "notjson"],
       [t |-> "array"],
       JObject(Absent),
       JObject(Str("abc")),
       JObject(Vec(30, "fin", 0)),
       JObject(Vec(30, "fin", 1)),
       JObject(Vec(30, "nan", 0)),
       JObject(Vec(30, "inf", 0)),
       JObject(Vec(30, "str", 0)),
       JObject(Vec(3, "fin", 0)),
       JObject(Vec(31, "fin", 0)),
       JObject(Vec(20, "fin", 1)) >>

Request(e, m, h, b) == [endpoint |-> e, method |-> m, rid_header |-> h, body |-> b]

\* str(uuid.uuid4()): the n-th id generated
uuid4(n) == Str("uuid-" \o ToString(n))

\* a request id that is always generated, whatever the caller sent
request_id_always_fresh(header, fresh) == fresh

\* request.headers.get("X-Request-Id", str(uuid.uuid4()))
request_id(header, fresh) == IF header = Absent THEN fresh ELSE header

------------------------------------------------------------------------------
\* Validation and inference

\* request.get_json(force=True, silent=False)
get_json(body) ==
    IF body.t = "notjson"
    THEN Raise("BadRequest", "400 Bad Request: Failed to decode JSON object")
    ELSE Return(body)

Err(type, loc) == [type |-> type, loc |-> loc]

\* PredictInput(**data): features: Annotated[List[float], Field(min_length=30, max_length=30)]
PredictInput(data) ==
    IF data.t # "object"
    THEN Raise("TypeError", "argument after ** must be a mapping")
    ELSE LET f == data.features
         IN  CASE f = Absent -> [raised |-> TRUE, exc |-> "ValidationError",
                                 errors |-> << Err("missing", "features") >>]
               [] f.t # "list" -> [raised |-> TRUE, exc |-> "ValidationError",
                                   errors |-> << Err("list_type", "features") >>]
               [] f.len > MAX_LENGTH -> [raised |-> TRUE, exc |-> "ValidationError",
                                         errors |-> << Err("too_long", "features") >>]
               [] f.len > 0 /\ f.elem = "str" ->
                       [raised |-> TRUE, exc |-> "ValidationError",
                        errors |-> << Err("float_parsing", "features.0") >>]
               [] f.len < MIN_LENGTH -> [raised |-> TRUE, exc |-> "ValidationError",
                                         errors |-> << Err("too_short", "features") >>]
               [] OTHER -> Return(f)

\* The fitted pipeline on one row X: the scaler refuses NaN and infinity, and a
\* row of another width than it was fitted on; the forest then answers a label.
check_X(model, X) ==
    CASE model.t # "clf" ->
            Raise("AttributeError", "'NoneType' object has no attribute 'predict'")
      [] X.elem = "nan" -> Raise("ValueError", "Input X contains NaN.")
      [] X.elem = "inf" -> Raise("ValueError", "Input X contains infinity")
      [] X.len # model.n_in -> Raise("ValueError", "X has a wrong number of features")
      [] OTHER -> Return(X)

\* app.model.predict(X)[0]
model_predict(model, X) ==
    LET c == check_X(model, X) IN IF c.raised THEN c ELSE Return(X.val)

\* app.model.predict_proba(X)[0].tolist(), in percent
model_predict_proba(model, X) ==
    LET c == check_X(model, X)
    IN  IF c.raised THEN c
        ELSE Return(IF X.val = 0 THEN <<100, 0>> ELSE <<0, 100>>)

\* hasattr(app.model, "predict_proba")
has_predict_proba(model) == model.t = "clf" /\ model.proba

\* pred_name with the index taken one too far
pred_name_off_by_one(class_names, pred_idx) ==
    IF class_names = Absent \/ Len(class_names.v) = 0
    THEN Return(IntV(pred_idx))
    ELSE IF pred_idx + 1 \in 0 .. Len(class_names.v) - 1
         THEN Return(Str(class_names.v[pred_idx + 2]))
         ELSE Raise("IndexError", "list index out of range")

\* class_names[pred_idx] if class_names else pred_idx
pred_name(class_names, pred_idx) ==
    IF class_names = Absent \/ Len(class_names.v) = 0
    THEN Return(IntV(pred_idx))
    ELSE IF pred_idx \in -Len(class_names.v) .. Len(class_names.v) - 1
         THEN Return(Str(class_names.v[IF pred_idx >= 0 THEN pred_idx + 1
                                       ELSE Len(class_names.v) + pred_idx + 1]))
         ELSE Raise("IndexError", "list index out of range")

Resp(status, json, body, ran) ==
    [status |-> status, json |-> json, body |-> body, ran |-> ran]

\* the except clause answering with the text under another key
internal_error_no_message(e, ran) ==
    Resp(500, TRUE, [status |-> "error", error |-> Str(e.text)], ran)

\* except Exception as e: 500 with str(e)
internal_error(e, ran) ==
    Resp(500, TRUE, [status |-> "error", message |-> e.text], ran)

\* POST /predict, the try block and its two except clauses; ran is the set of
\* the steps that were started
predict_try(a, body, g) ==
    LET data == get_json(body)
    IN  IF data.raised THEN internal_error(data, {"get_json"})
        ELSE
        LET payload == PredictInput(data.value)
            ran1 == {"get_json", "PredictInput"}
        IN  IF payload.raised
            THEN IF payload.exc = "ValidationError"
                 THEN Resp(400, TRUE, [status |-> "error", message |-> "Payload inválido",
                                       details |-> payload.errors], ran1)
                 ELSE internal_error(payload, ran1)
            ELSE
            LET X == payload.value
                withProba == has_predict_proba(a.model)
                proba == IF withProba THEN model_predict_proba(a.model, X) ELSE Return(NoneV)
                ran2 == ran1 \cup (IF withProba THEN {"predict_proba"} ELSE {})
            IN  IF proba.raised THEN internal_error(proba, ran2)
                ELSE
                LET pred_idx == model_predict(a.model, X)
                    ran3 == ran2 \cup {"predict"}
                IN  IF pred_idx.raised THEN internal_error(pred_idx, ran3)
                    ELSE
                    LET name == pred_name(a.meta.class_names, pred_idx.value)
                    IN  IF name.raised THEN internal_error(name, ran3)
                        ELSE Resp(200, TRUE,
                                  [status |-> "success",
                                   prediction_index |-> pred_idx.value,
                                   prediction |-> name.value,
                                   proba |-> proba.value,
                                   request_id |-> g.request_id], ran3)

\* predict without the `if app.model is None` guard
predict_view_unguarded(a, body, g) == predict_try(a, body, g)

\* POST /predict
predict_view(a, body, g) ==
    IF a.model = NoneV
    THEN Resp(500, TRUE, [status |-> "error", message |-> "Modelo no cargado",
                          error |-> a.load_error], {})
    ELSE predict_try(a, body, g)

\* GET /health
health_view(a) ==
    LET ok == (a.model # NoneV) /\ (a.load_error = NoneV)
    IN  Resp(IF ok THEN 200 ELSE 500, TRUE,
             [status |-> IF ok THEN "ok" ELSE "error",
              model_loaded |-> ok,
              n_features |-> n_features_expected(a.meta),
              meta |-> a.meta,
              error |-> a.load_error], {})

\* GET /
root_view(a) ==
    Resp(200, TRUE, [status |-> "success", message |-> "API ML Evaluación Modular",
                     model_path |-> ARTIFACT_PATH,
                     meta |-> a.meta, load_error |-> a.load_error], {})

\* GET /metrics: generate_latest() renders the registry as it is
metrics_view(count, latency) ==
    Resp(200, FALSE, [api_requests_total |-> count,
                      api_request_latency_seconds_count |-> latency], {})

------------------------------------------------------------------------------
Idle == [pc |-> "idle"]


Init ==
    /\ phase = "boot"
    /\ artifact \in DOMAIN Artifacts
    /\ app = [model |-> NoneV, meta |-> EmptyMeta, load_error |-> NoneV]
    /\ cur = Idle
    /\ REQ_COUNT = <<>>
    /\ REQ_LATENCY = <<>>
    /\ uuids = 0
    /\ received = <<>>
    /\ answered = <<>>
    /\ startup = NoneV
    /\ memo = NoneV

\* create_app: app.model = None, app.meta = {}, app.load_error = None, then
\* the load inside try/except
create_app ==
    /\ phase = "boot"
    /\ LET r == load_artifact(Artifacts[artifact])
           loaded == IF r.raised
                     THEN [model |-> NoneV, meta |-> EmptyMeta, load_error |-> Str(r.text)]
                     ELSE [model |-> r.value.model, meta |-> r.value.meta,
                           load_error |-> NoneV]
       IN  /\ app' = loaded
           /\ startup' = loaded
    /\ phase' = "serving"
    /\ UNCHANGED <<artifact, cur, REQ_COUNT, REQ_LATENCY, uuids, received, answered, memo>>

\* A labelled metric: a child is created at its first use, and a child that was
\* never used reads 0
Value(metric, labels) == IF labels \in DOMAIN metric THEN metric[labels] ELSE 0

\* Counter.labels(...).inc(), Histogram.labels(...).observe(...)
inc(metric, labels) ==
    IF labels \in DOMAIN metric
    THEN [metric EXCEPT ![labels] = @ + 1]
    ELSE metric @@ (labels :> 1)


\* A request arrives at the worker; before_request: g.t0, g.request_id.
\* uuid.uuid4() is the default argument of get, so it is called every time.
before ==
    /\ phase = "serving"
    /\ cur.pc \in {"idle", "done"}
    /\ uuids < MaxRequests
    /\ \E h \in DOMAIN Headers :
       \E r \in { Request(e, "GET", Headers[h], Absent) :
                     e \in {"root", "health", "metrics", "unknown"} }
               \cup { Request("predict", "POST", Headers[h], Bodies[b]) : b \in DOMAIN Bodies } :
          /\ cur' = [pc |-> "started", req |-> r,
                     g |-> [request_id |-> request_id(r.rid_header, uuid4(uuids + 1))]]
          /\ received' = inc(received, r.endpoint)
    /\ uuids' = uuids + 1
    /\ UNCHANGED <<phase, artifact, app, REQ_COUNT, REQ_LATENCY, answered, startup, memo>>

Handled(resp) ==
    /\ cur' = [pc |-> "handled", req |-> cur.req, g |-> cur.g, resp |-> resp]
    /\ answered' = inc(answered, <<cur.req.endpoint, cur.req.method, resp.status>>)
    /\ UNCHANGED <<phase, artifact, app, REQ_COUNT, REQ_LATENCY, uuids, received, startup, memo>>

root ==
    /\ cur.pc = "started" /\ cur.req.endpoint = "root"
    /\ Handled(root_view(app))

health ==
    /\ cur.pc = "started" /\ cur.req.endpoint = "health"
    /\ Handled(health_view(app))

predict ==
    /\ cur.pc = "started" /\ cur.req.endpoint = "predict"
    /\ Handled(predict_view(app, cur.req.body, cur.g))

metrics ==
    /\ cur.pc = "started" /\ cur.req.endpoint = "metrics"
    /\ Handled(metrics_view(REQ_COUNT, REQ_LATENCY))

\* No rule matches the URL: request.endpoint is None and Flask answers 404
not_found ==
    /\ cur.pc = "started" /\ cur.req.endpoint = "unknown"
    /\ Handled(Resp(404, FALSE, [html |-> "Not Found"], {}))

\* after_request that leaves error responses out of the metrics
after_success_only ==
    /\ cur.pc = "handled"
    /\ LET endpoint == cur.req.endpoint
           method == cur.req.method
       IN  IF cur.resp.status < 400
           THEN /\ REQ_COUNT' = inc(REQ_COUNT, <<endpoint, method, cur.resp.status>>)
                /\ REQ_LATENCY' = inc(REQ_LATENCY, <<endpoint, method>>)
           ELSE UNCHANGED <<REQ_COUNT, REQ_LATENCY>>
    /\ cur' = [pc |-> "done", req |-> cur.req, g |-> cur.g, resp |-> cur.resp,
               headers |-> [X_Request_Id |-> cur.g.request_id]]
    /\ UNCHANGED <<phase, artifact, app, uuids, received, answered, startup, memo>>

\* after_request: count, observe the latency, set the response header
after ==
    /\ cur.pc = "handled"
    /\ LET endpoint == cur.req.endpoint
           method == cur.req.method
       IN  /\ REQ_COUNT' = inc(REQ_COUNT, <<endpoint, method, cur.resp.status>>)
           /\ REQ_LATENCY' = inc(REQ_LATENCY, <<endpoint, method>>)
    /\ cur' = [pc |-> "done", req |-> cur.req, g |-> cur.g, resp |-> cur.resp,
               headers |-> [X_Request_Id |-> cur.g.request_id]]
    /\ UNCHANGED <<phase, artifact, app, uuids, received, answered, startup, memo>>

\* History: a client keeps one /predict exchange to compare later ones with
Observe ==
    /\ cur.pc = "done" /\ cur.req.endpoint = "predict"
    /\ memo = NoneV
    /\ memo' = [req |-> cur.req, resp |-> cur.resp, headers |-> cur.headers]
    /\ UNCHANGED <<phase, artifact, app, cur, REQ_COUNT, REQ_LATENCY, uuids, received, answered,
                   startup>>

Next ==
    \/ create_app
    \/ before
    \/ root
    \/ health
    \/ predict
    \/ metrics
    \/ not_found
    \/ after
    \/ Observe

Spec == Init /\ [][Next]_vars

------------------------------------------------------------------------------
\* Properties

\* The load at startup returned a predictor (no exception, and a model that is
\* not None)
PredictorLoaded ==
    LET r == load_artifact(Artifacts[artifact])
    IN  ~r.raised /\ r.value.model.t = "clf"

\* The handler of the current request has produced its response
Answered(e) == cur.pc \in {"handled", "done"} /\ cur.req.endpoint = e

\* C1: GET /health returns 200 (status "ok", model_loaded true, error null) iff
\* the artifact loaded at startup, and otherwise 500 with model_loaded false and
\* a non-null error.
C1_HealthIffLoaded ==
    Answered("health") =>
        LET b == cur.resp.body
        IN  /\ (cur.resp.status = 200) <=> ~load_artifact(Artifacts[artifact]).raised
            /\ IF cur.resp.status = 200
               THEN b.status = "ok" /\ b.model_loaded /\ b.error = NoneV
               ELSE cur.resp.status = 500 /\ ~b.model_loaded /\ b.error # NoneV

\* C2: when the load at startup gave no predictor, POST /predict returns 500
\* whatever the body, and neither get_json, PredictInput, predict_proba nor
\* predict is started.
C2_FailedNeverInfers ==
    (Answered("predict") /\ ~PredictorLoaded) =>
        cur.resp.status = 500 /\ cur.resp.ran = {}

C2_Witness ==
    /\ Answered("predict") /\ cur.pc = "done"
    /\ load_artifact(Artifacts[artifact]).raised
    /\ cur.req.body = JObject(Vec(30, "fin", 1))
    /\ cur.resp.status = 500

\* A features vector the contract accepts: as many elements as the metadata
\* says (30), all finite numbers
ValidVector(body) ==
    /\ body.t = "object"
    /\ body.features # Absent
    /\ body.features.t = "list"
    /\ body.features.len = 30
    /\ body.features.len = n_features_expected(app.meta)
    /\ body.features.elem = "fin"

HasClassNames == app.meta.class_names # Absent /\ Len(app.meta.class_names.v) > 0

Inferred(resp) == resp.ran \cap {"predict_proba", "predict"} # {}

\* C4: with the model loaded, a features vector whose length differs from the
\* expected count (metadata n_features, else 30) gets 400 with details, and a
\* vector reaches the predictor only when its length equals that count.
C4_LengthFromMetadata ==
    (/\ Answered("predict") /\ PredictorLoaded
     /\ cur.req.body.t = "object"
     /\ cur.req.body.features # Absent
     /\ cur.req.body.features.t = "list") =>
        LET n == cur.req.body.features.len
            expected == n_features_expected(app.meta)
        IN  /\ n # expected => /\ cur.resp.status = 400
                               /\ "details" \in DOMAIN cur.resp.body
                               /\ Len(cur.resp.body.details) > 0
            /\ Inferred(cur.resp) => n = expected

\* A body that is no JSON, no JSON object, or an object without features
Malformed(body) ==
    \/ body.t \in {"notjson", "array"}
    \/ body.t = "object" /\ body.features = Absent

\* C5: with the model loaded, malformed input (not JSON, not an object, no
\* features field) gets 400 with status "error" and details, never 500, and the
\* predictor is not called.
C5_MalformedIs400 ==
    (Answered("predict") /\ PredictorLoaded /\ Malformed(cur.req.body)) =>
        /\ cur.resp.status = 400
        /\ cur.resp.body.status = "error"
        /\ "details" \in DOMAIN cur.resp.body
        /\ Len(cur.resp.body.details) > 0
        /\ ~Inferred(cur.resp)

\* C6: every response carries X-Request-Id: the inbound header when it is
\* present and non-empty, and otherwise (absent, or present but empty) the id
\* generated for this request, which is non-empty.
C6_RequestIdHeader ==
    cur.pc = "done" =>
        LET h == cur.req.rid_header
        IN  IF h # Absent /\ h.v # ""
            THEN cur.headers.X_Request_Id = h
            ELSE /\ cur.headers.X_Request_Id = uuid4(uuids)
                 /\ cur.headers.X_Request_Id.v # ""

\* Requests of endpoint e that have arrived and whose after_request is still
\* to run
InFlight(e) == IF cur.pc \in {"started", "handled"} /\ cur.req.endpoint = e THEN 1 ELSE 0

\* The responses counted under endpoint e by a registry, over all statuses
Counted(count, e) ==
    LET m == IF e = "predict" THEN "POST" ELSE "GET"
    IN  Value(count, <<e, m, 200>>) + Value(count, <<e, m, 400>>)
        + Value(count, <<e, m, 404>>) + Value(count, <<e, m, 500>>)

\* answered, without the response whose after_request is still to run
Accounted ==
    IF cur.pc = "handled"
    THEN LET k == <<cur.req.endpoint, cur.req.method, cur.resp.status>>
         IN  [x \in DOMAIN answered \ (IF answered[k] = 1 THEN {k} ELSE {}) |->
                 IF x = k THEN answered[x] - 1 ELSE answered[x]]
    ELSE answered

\* C7: every request is counted exactly once, after its handler, under
\* (endpoint, method, status), with one latency observation under
\* (endpoint, method); /metrics shows /predict counters that sum to the number
\* of /predict requests made before it.
C7_CountedExactlyOnce ==
    /\ DOMAIN REQ_COUNT = DOMAIN Accounted
    /\ \A k \in DOMAIN REQ_COUNT : REQ_COUNT[k] = Accounted[k]
    /\ \A e \in {"root", "health", "predict", "metrics", "unknown"} :
          /\ Counted(REQ_COUNT, e) = Value(received, e) - InFlight(e)
          /\ Value(REQ_LATENCY, <<e, IF e = "predict" THEN "POST" ELSE "GET">>)
                = Value(received, e) - InFlight(e)
    /\ Answered("metrics") =>
          Counted(cur.resp.body.api_requests_total, "predict") = Value(received, "predict")

C7_Witness ==
    /\ Answered("metrics") /\ cur.pc = "done"
    /\ Value(received, "predict") = 2
    /\ Value(cur.resp.body.api_requests_total, <<"predict", "POST", 200>>) = 1
    /\ Value(cur.resp.body.api_requests_total, <<"predict", "POST", 400>>) = 1
    /\ Value(REQ_COUNT, <<"metrics", "GET", 200>>) = 1

\* C8: every 4xx or 5xx response of /health or /predict is JSON with status
\* "error" and a message field, and no request changes the load state.
C8_FailuresCarryMessage ==
    /\ phase = "serving" => app = startup
    /\ ((Answered("health") \/ Answered("predict")) /\ cur.resp.status >= 400) =>
          /\ cur.resp.json
          /\ cur.resp.body.status = "error"
          /\ "message" \in DOMAIN cur.resp.body

\* C8 as amended: a failure of /predict is JSON with status "error" and a
\* message; a failure of /health is JSON with status "error", model_loaded
\* false and the load error under "error", and has no message field; no request
\* changes the load state.
C8_FailureBodies ==
    /\ phase = "serving" => app = startup
    /\ (Answered("predict") /\ cur.resp.status >= 400) =>
          /\ cur.resp.json
          /\ cur.resp.body.status = "error"
          /\ "message" \in DOMAIN cur.resp.body
    /\ (Answered("health") /\ cur.resp.status >= 400) =>
          /\ cur.resp.json
          /\ cur.resp.body.status = "error"
          /\ ~cur.resp.body.model_loaded
          /\ cur.resp.body.error = app.load_error
          /\ "message" \notin DOMAIN cur.resp.body

C8_Witness ==
    /\ Answered("health") /\ cur.pc = "done" /\ cur.resp.status = 500
    /\ memo # NoneV /\ memo.resp.status = 500
    /\ memo.resp.body.message = "Modelo no cargado"

\* The response to a failure of the predictor, after validation has passed
InternalFailure(resp) == resp.status = 500 /\ Inferred(resp)

\* C9: two requests that fail after validation with different exception texts
\* get the same message.
C9_GenericMessage ==
    (/\ memo # NoneV /\ Answered("predict")
     /\ InternalFailure(memo.resp) /\ InternalFailure(cur.resp)) =>
        cur.resp.body.message = memo.resp.body.message

\* A response body without its request_id field
Strip(resp) ==
    [resp EXCEPT !.body = [k \in DOMAIN resp.body \ {"request_id"} |-> resp.body[k]]]

\* C10: two /predict requests with identical input get identical responses, and
\* no request changes the model, the metadata or the load error.
C10_Idempotent ==
    /\ phase = "serving" => app = startup
    /\ (memo # NoneV /\ Answered("predict") /\ cur.req = memo.req) =>
          cur.resp = memo.resp

\* C10 as amended: two /predict requests with the same body get responses that
\* are identical apart from the request id; the request id (body field and
\* X-Request-Id header) is the same too when both carry the same X-Request-Id
\* header; no request changes the model, the metadata or the load error.
C10_IdempotentUpToRequestId ==
    /\ phase = "serving" => app = startup
    /\ (memo # NoneV /\ Answered("predict") /\ cur.req.body = memo.req.body) =>
          /\ Strip(cur.resp) = Strip(memo.resp)
          /\ (cur.req.rid_header # Absent /\ cur.req.rid_header = memo.req.rid_header) =>
                /\ cur.resp = memo.resp
                /\ cur.pc = "done" => cur.headers = memo.headers

C10_Witness ==
    /\ memo # NoneV /\ Answered("predict") /\ cur.pc = "done"
    /\ cur.req = memo.req
    /\ cur.req.rid_header = Absent
    /\ cur.resp.status = 200
    /\ cur.resp.body.request_id # memo.resp.body.request_id
====
